---- MODULE Spec2Model ----
(***************************************************************************)
(* Model of azure_app_detector.py: main() loads a candidate list, submits  *)
(* one check_app_existence probe per candidate to a ThreadPoolExecutor,    *)
(* sleeping args.delay after every submission, then collects the futures   *)
(* in submission order and reports.                                         *)
(*                                                                         *)
(* Time is counted in whole units of the clock `now`.  Only the time that  *)
(* passes while main is inside time.sleep is observed, and a sleep lasts   *)
(* exactly what was asked: every step is taken to cost the least time it   *)
(* can cost.  Worker steps interleave freely with the clock.               *)
(***************************************************************************)
EXTENDS Integers, Sequences, FiniteSets, TLC

\* ---- bounds of the model ------------------------------------------------
MaxRows == 2        \* rows in the identifier file
MaxWorkers == 2     \* largest --workers value tried
MaxDelay == 1       \* the positive --delay value tried (clock units)

\* ---- program constants --------------------------------------------------
CODE_EXISTS == 7000215
CODE_NOT_FOUND == 700016
DEFAULT_CODE == 0

VARIABLES
    pc,          \* position of the main thread
    args,        \* parsed command line: workers, delay
    app_info,    \* loaded candidates, in file order
    sub_idx,     \* index of `app` in the loop of line 158
    futures,     \* one entry per submitted probe, in submission order
    work_queue,  \* the executor's FIFO of not yet started probes (indices)
    col_idx,     \* index of `future` in the loop of line 169
    results,     \* outcomes collected by main
    found_apps,  \* collected outcomes whose status is 'exists'
    request_log, \* client_id of every request sent by requests.post, in order
    now,         \* the clock
    wake,        \* when the current time.sleep returns
    sub_time,    \* clock value at each executor.submit, in order
    overtaken,   \* history: some probe finished before an earlier-submitted one
    console,     \* what the main thread printed, in order
    saved,       \* what happened to the --output file
    exit_code    \* process exit code, -1 while running

vars == <<pc, args, app_info, sub_idx, futures, work_queue, col_idx, results,
          found_apps, request_log, now, wake, sub_time, overtaken, console,
          saved, exit_code>>

\* ---- inputs -------------------------------------------------------------
\* A row of the identifier file after strip(): appId "" is a blank line or
\* a blank appId cell.
Rows ==
    { [appId |-> "",  displayName |-> ""],
      [appId |-> "a", displayName |-> "n"],
      [appId |-> "b", displayName |-> ""] }

RECURSIVE SeqsUpTo(_, _)
SeqsUpTo(S, n) ==
    IF n = 0 THEN { <<>> }
    ELSE LET shorter == SeqsUpTo(S, n - 1)
         IN  shorter \cup { Append(s, x) : s \in { t \in shorter : Len(t) = n - 1 }, x \in S }

Files == SeqsUpTo(Rows, MaxRows)

\* What requests.post(...) followed by response.json() produces: an
\* exception, or a decoded body.  has_codes says whether the body has an
\* 'error_codes' key; http_status is the status line of the response, 0
\* when there is none.
JsonBody(has, codes, desc) ==
    [raises |-> "", http_status |-> 400, has_codes |-> has, error_codes |-> codes,
     error_description |-> desc]

Raises(e) ==
    [raises |-> e, http_status |-> 0, has_codes |-> FALSE, error_codes |-> <<>>,
     error_description |-> ""]

Responses ==
    { JsonBody(TRUE, <<CODE_EXISTS>>, "AADSTS7000215"),
      [JsonBody(TRUE, <<CODE_EXISTS, 50034>>, "invalid client secret")
          EXCEPT !.http_status = 401],
      JsonBody(TRUE, <<CODE_NOT_FOUND>>, "AADSTS700016"),
      JsonBody(TRUE, <<50034>>, "AADSTS50034"),
      JsonBody(TRUE, <<0>>, ""),
      JsonBody(TRUE, <<>>, ""),
      JsonBody(FALSE, <<>>, ""),
      Raises("ConnectionError"),
      Raises("Timeout"),
      Raises("JSONDecodeError") }

\* ---- check_app_existence ------------------------------------------------
\* How a call ends: it returns a value or an exception leaves it.
Return(v) == [raised |-> "", value |-> v]

Raise(e) == [raised |-> e, value |-> [status |-> "none"]]

\* error_json.get('error_codes', [0])
GetErrorCodes(resp) ==
    IF resp.has_codes THEN resp.error_codes ELSE <<DEFAULT_CODE>>

\* The exception raised inside the try block, "" when none is raised:
\* requests.post or response.json() raise, or [0] indexes an empty list.
ProbeException(resp) ==
    IF resp.raises # "" THEN resp.raises
    ELSE IF Len(GetErrorCodes(resp)) = 0 THEN "IndexError"
    ELSE ""

Classify(error_code) ==
    IF error_code = CODE_EXISTS THEN "exists"
    ELSE IF error_code = CODE_NOT_FOUND THEN "not_found"
    ELSE "unknown"

\* check_app_existence classifying the whole error_codes list, not its head
check_app_existence_whole_list(client_id, display_name, resp) ==
    IF ProbeException(resp) # ""
    THEN Return([client_id |-> client_id, display_name |-> display_name,
                 status |-> "error", error_message |-> ProbeException(resp)])
    ELSE LET error_code == GetErrorCodes(resp)[1]
         IN  Return([client_id |-> client_id, display_name |-> display_name,
                     status |-> IF Len(GetErrorCodes(resp)) = 1
                                THEN Classify(error_code) ELSE "unknown",
                     error_code |-> error_code,
                     error_description |-> resp.error_description])

\* check_app_existence whose except clause also stores a code
check_app_existence_error_with_code(client_id, display_name, resp) ==
    IF ProbeException(resp) # ""
    THEN Return([client_id |-> client_id, display_name |-> display_name,
                 status |-> "error", error_code |-> DEFAULT_CODE,
                 error_message |-> ProbeException(resp)])
    ELSE LET error_code == GetErrorCodes(resp)[1]
         IN  Return([client_id |-> client_id, display_name |-> display_name,
                     status |-> Classify(error_code), error_code |-> error_code,
                     error_description |-> resp.error_description])

\* check_app_existence without its except clause
check_app_existence_uncaught(client_id, display_name, resp) ==
    IF ProbeException(resp) # ""
    THEN Raise(ProbeException(resp))
    ELSE LET error_code == GetErrorCodes(resp)[1]
         IN  Return([client_id |-> client_id, display_name |-> display_name,
                     status |-> Classify(error_code), error_code |-> error_code,
                     error_description |-> resp.error_description])

check_app_existence(client_id, display_name, resp) ==
    IF ProbeException(resp) # ""
    THEN Return([client_id |-> client_id, display_name |-> display_name,
                 status |-> "error", error_message |-> ProbeException(resp)])
    ELSE LET error_code == GetErrorCodes(resp)[1]
         IN  Return([client_id |-> client_id, display_name |-> display_name,
                     status |-> Classify(error_code), error_code |-> error_code,
                     error_description |-> resp.error_description])

\* ---- loaders ------------------------------------------------------------
RECURSIVE load_client_ids_from_txt(_)
load_client_ids_from_txt(file) ==
    IF file = <<>> THEN <<>>
    ELSE LET client_id == Head(file).appId
             rest == load_client_ids_from_txt(Tail(file))
         IN  IF client_id # ""
             THEN <<[client_id |-> client_id, display_name |-> ""]>> \o rest
             ELSE rest

RECURSIVE load_client_ids_from_csv(_, _)
load_client_ids_from_csv(file, has_appId) ==
    IF file = <<>> THEN <<>>
    ELSE LET row == Head(file)
             rest == load_client_ids_from_csv(Tail(file), has_appId)
         IN  IF has_appId /\ row.appId # ""
             THEN <<[client_id |-> row.appId, display_name |-> row.displayName]>> \o rest
             ELSE rest

\* ---- state --------------------------------------------------------------
Init ==
    /\ pc = "parse"
    /\ args = [workers |-> 0, delay |-> 0]
    /\ app_info = <<>>
    /\ sub_idx = 1
    /\ futures = <<>>
    /\ work_queue = <<>>
    /\ col_idx = 1
    /\ results = <<>>
    /\ found_apps = <<>>
    /\ request_log = <<>>
    /\ now = 0
    /\ wake = 0
    /\ sub_time = <<>>
    /\ overtaken = FALSE
    /\ console = <<>>
    /\ saved = "none"
    /\ exit_code = -1

\* Probes a worker has started and not finished.
InFlight == { i \in 1..Len(futures) : futures[i].state \in {"running", "hung"} }

\* Probes the executor still has to finish.
Pending == { i \in 1..Len(futures) : futures[i].state # "done" }

\* ---- main ---------------------------------------------------------------
\* Lines 14-23: --workers is any int, --delay any float (a negative, a
\* zero and a positive one are tried).
ParseArgs ==
    /\ pc = "parse"
    /\ \E w \in 0..MaxWorkers, d \in {-1, 0, MaxDelay} :
          args' = [workers |-> w, delay |-> d]
    /\ pc' = "load"
    /\ UNCHANGED <<overtaken, app_info, sub_idx, futures, work_queue, col_idx, results,
                   found_apps, request_log, now, wake, sub_time, console,
                   saved, exit_code>>

\* Load without the `if not app_info` exit
LoadNoEmptyCheck ==
    /\ pc = "load"
    /\ \/ /\ console' = Append(console, <<"Error: Unable to read file", "">>)
          /\ pc' = "exited"
          /\ exit_code' = 1
          /\ UNCHANGED app_info
       \/ \E file \in Files, fmt \in {"txt", "csv", "csv_no_appId"} :
             LET loaded == IF fmt = "txt" THEN load_client_ids_from_txt(file)
                           ELSE load_client_ids_from_csv(file, fmt = "csv")
             IN  /\ app_info' = loaded
                 /\ console' = Append(console, <<"[INFO] Loaded", "">>)
                 /\ pc' = "pool"
                 /\ UNCHANGED exit_code
    /\ UNCHANGED <<overtaken, args, sub_idx, futures, work_queue, col_idx, results,
                   found_apps, request_log, now, wake, sub_time, saved>>

\* Lines 121-150: read the file; an exception or an empty list exits 1.
Load ==
    /\ pc = "load"
    /\ \/ /\ console' = Append(console, <<"Error: Unable to read file", "">>)
          /\ pc' = "exited"
          /\ exit_code' = 1
          /\ UNCHANGED app_info
       \/ \E file \in Files, fmt \in {"txt", "csv", "csv_no_appId"} :
             LET loaded == IF fmt = "txt" THEN load_client_ids_from_txt(file)
                           ELSE load_client_ids_from_csv(file, fmt = "csv")
             IN  /\ app_info' = loaded
                 /\ IF loaded = <<>>
                    THEN /\ console' = Append(console, <<"Error: No valid application ID data found", "">>)
                         /\ pc' = "exited"
                         /\ exit_code' = 1
                    ELSE /\ console' = Append(console, <<"[INFO] Loaded", "">>)
                         /\ pc' = "pool"
                         /\ UNCHANGED exit_code
    /\ UNCHANGED <<overtaken, args, sub_idx, futures, work_queue, col_idx, results,
                   found_apps, request_log, now, wake, sub_time, saved>>

\* Line 156: ThreadPoolExecutor(max_workers) raises ValueError for <= 0,
\* which nothing catches.
CreatePool ==
    /\ pc = "pool"
    /\ IF args.workers <= 0
       THEN /\ console' = Append(console, <<"Traceback", "ValueError">>)
            /\ pc' = "exited"
            /\ exit_code' = 1
       ELSE /\ pc' = "submit"
            /\ UNCHANGED <<console, exit_code>>
    /\ UNCHANGED <<overtaken, args, app_info, sub_idx, futures, work_queue, col_idx,
                   results, found_apps, request_log, now, wake, sub_time, saved>>

\* Submit without the time.sleep
SubmitNoSleep ==
    /\ pc = "submit"
    /\ sub_idx <= Len(app_info)
    /\ futures' = Append(futures, [state |-> "queued", result |-> [status |-> "none"],
                                   exception |-> ""])
    /\ work_queue' = Append(work_queue, Len(futures) + 1)
    /\ sub_time' = Append(sub_time, now)
    /\ sub_idx' = sub_idx + 1
    /\ IF args.delay < 0
       THEN pc' = "abort" /\ UNCHANGED wake
       ELSE pc' = "sleep" /\ wake' = now
    /\ UNCHANGED <<overtaken, args, app_info, col_idx, results, found_apps, request_log,
                   now, console, saved, exit_code>>

\* Lines 158-166: executor.submit of the next candidate, then time.sleep
\* starts; a negative delay makes time.sleep raise ValueError, which leaves
\* the with block.
Submit ==
    /\ pc = "submit"
    /\ sub_idx <= Len(app_info)
    /\ futures' = Append(futures, [state |-> "queued", result |-> [status |-> "none"],
                                   exception |-> ""])
    /\ work_queue' = Append(work_queue, Len(futures) + 1)
    /\ sub_time' = Append(sub_time, now)
    /\ sub_idx' = sub_idx + 1
    /\ IF args.delay < 0
       THEN pc' = "abort" /\ UNCHANGED wake
       ELSE pc' = "sleep" /\ wake' = now + args.delay
    /\ UNCHANGED <<overtaken, args, app_info, col_idx, results, found_apps, request_log,
                   now, console, saved, exit_code>>

\* The clock advances while main sleeps.
Tick ==
    /\ pc = "sleep"
    /\ now < wake
    /\ now' = now + 1
    /\ UNCHANGED <<overtaken, pc, args, app_info, sub_idx, futures, work_queue, col_idx,
                   results, found_apps, request_log, wake, sub_time, console,
                   saved, exit_code>>

\* SleepReturns with the result loop nested in the submitting loop
SleepReturnsToCollect ==
    /\ pc = "sleep"
    /\ now >= wake
    /\ pc' = "collect"
    /\ UNCHANGED <<overtaken, args, app_info, sub_idx, futures, work_queue, col_idx,
                   results, found_apps, request_log, now, wake, sub_time,
                   console, saved, exit_code>>

\* time.sleep returns; the for loop of line 158 goes on or ends.
SleepReturns ==
    /\ pc = "sleep"
    /\ now >= wake
    /\ pc' = IF sub_idx <= Len(app_info) THEN "submit" ELSE "collect"
    /\ UNCHANGED <<overtaken, args, app_info, sub_idx, futures, work_queue, col_idx,
                   results, found_apps, request_log, now, wake, sub_time,
                   console, saved, exit_code>>

\* Collect walking the futures from the last to the first
CollectReversed ==
    /\ pc = "collect"
    /\ col_idx <= Len(futures)
    /\ LET future == futures[Len(futures) + 1 - col_idx]
       IN  /\ future.state = "done"
           /\ IF future.exception # ""
              THEN /\ pc' = "abort"
                   /\ UNCHANGED <<col_idx, results, found_apps, console>>
              ELSE /\ results' = Append(results, future.result)
                   /\ IF future.result.status = "exists"
                      THEN /\ found_apps' = Append(found_apps, future.result)
                           /\ console' = Append(console, <<"[FOUND]", future.result.client_id>>)
                      ELSE UNCHANGED <<found_apps, console>>
                   /\ col_idx' = col_idx + 1
                   /\ pc' = IF col_idx' <= Len(futures) THEN "collect" ELSE "report"
    /\ UNCHANGED <<overtaken, args, app_info, sub_idx, futures, work_queue, request_log,
                   now, wake, sub_time, saved, exit_code>>

\* Collect keeping only the outcomes of probes that got an answer
CollectDropErrors ==
    /\ pc = "collect"
    /\ col_idx <= Len(futures)
    /\ LET future == futures[col_idx]
       IN  /\ future.state = "done"
           /\ IF future.exception # ""
              THEN /\ pc' = "abort"
                   /\ UNCHANGED <<col_idx, results, found_apps, console>>
              ELSE /\ results' = IF future.result.status = "error" THEN results
                                 ELSE Append(results, future.result)
                   /\ IF future.result.status = "exists"
                      THEN /\ found_apps' = Append(found_apps, future.result)
                           /\ console' = Append(console, <<"[FOUND]", future.result.client_id>>)
                      ELSE UNCHANGED <<found_apps, console>>
                   /\ col_idx' = col_idx + 1
                   /\ pc' = IF col_idx' <= Len(futures) THEN "collect" ELSE "report"
    /\ UNCHANGED <<overtaken, args, app_info, sub_idx, futures, work_queue, request_log,
                   now, wake, sub_time, saved, exit_code>>

\* Collect taking each collected candidate off the candidate list
CollectConsuming ==
    /\ pc = "collect"
    /\ col_idx <= Len(futures)
    /\ LET future == futures[col_idx]
       IN  /\ future.state = "done"
           /\ IF future.exception # ""
              THEN /\ pc' = "abort"
                   /\ UNCHANGED <<col_idx, results, found_apps, console, app_info>>
              ELSE /\ results' = Append(results, future.result)
                   /\ app_info' = Tail(app_info)
                   /\ IF future.result.status = "exists"
                      THEN /\ found_apps' = Append(found_apps, future.result)
                           /\ console' = Append(console, <<"[FOUND]", future.result.client_id>>)
                      ELSE UNCHANGED <<found_apps, console>>
                   /\ col_idx' = col_idx + 1
                   /\ pc' = IF col_idx' <= Len(futures) THEN "collect" ELSE "report"
    /\ UNCHANGED <<overtaken, args, sub_idx, futures, work_queue, request_log,
                   now, wake, sub_time, saved, exit_code>>

\* Collect taking every answered probe for a found application
CollectFoundIfAnswered ==
    /\ pc = "collect"
    /\ col_idx <= Len(futures)
    /\ LET future == futures[col_idx]
       IN  /\ future.state = "done"
           /\ IF future.exception # ""
              THEN /\ pc' = "abort"
                   /\ UNCHANGED <<col_idx, results, found_apps, console>>
              ELSE /\ results' = Append(results, future.result)
                   /\ IF future.result.status # "error"
                      THEN /\ found_apps' = Append(found_apps, future.result)
                           /\ console' = Append(console, <<"[FOUND]", future.result.client_id>>)
                      ELSE UNCHANGED <<found_apps, console>>
                   /\ col_idx' = col_idx + 1
                   /\ pc' = IF col_idx' <= Len(futures) THEN "collect" ELSE "report"
    /\ UNCHANGED <<overtaken, args, app_info, sub_idx, futures, work_queue, request_log,
                   now, wake, sub_time, saved, exit_code>>

\* Lines 169-175: future.result() of the next future in the list blocks
\* until that probe is done, and re-raises what the probe raised.
Collect ==
    /\ pc = "collect"
    /\ col_idx <= Len(futures)
    /\ LET future == futures[col_idx]
       IN  /\ future.state = "done"
           /\ IF future.exception # ""
              THEN /\ pc' = "abort"
                   /\ UNCHANGED <<col_idx, results, found_apps, console>>
              ELSE /\ results' = Append(results, future.result)
                   /\ IF future.result.status = "exists"
                      THEN /\ found_apps' = Append(found_apps, future.result)
                           /\ console' = Append(console, <<"[FOUND]", future.result.client_id>>)
                      ELSE UNCHANGED <<found_apps, console>>
                   /\ col_idx' = col_idx + 1
                   /\ pc' = IF col_idx' <= Len(futures) THEN "collect" ELSE "report"
    /\ UNCHANGED <<overtaken, args, app_info, sub_idx, futures, work_queue, request_log,
                   now, wake, sub_time, saved, exit_code>>

\* Leaving the with block on an exception: shutdown(wait=True) joins the
\* workers, then the uncaught exception ends the process with code 1.
Abort ==
    /\ pc = "abort"
    /\ Pending = {}
    /\ console' = Append(console, <<"Traceback", "">>)
    /\ pc' = "exited"
    /\ exit_code' = 1
    /\ UNCHANGED <<overtaken, args, app_info, sub_idx, futures, work_queue, col_idx,
                   results, found_apps, request_log, now, wake, sub_time, saved>>

\* print of every found application, lines 191-194
RECURSIVE Listing(_)
Listing(found) ==
    IF found = <<>> THEN <<>>
    ELSE << <<"- Name", Head(found).client_id>> >> \o Listing(Tail(found))

\* Report without the try around the write: a failed write ends the run
ReportWriteFatal ==
    /\ pc = "report"
    /\ \E output \in {"none", "written", "failed"} :
          /\ saved' = output
          /\ console' = console
                \o << <<"[RESULT] Total applications checked", Len(app_info)>>,
                      <<"[RESULT] Found existing applications", Len(found_apps)>> >>
                \o (IF output = "written" THEN << <<"[INFO] Results saved", "">> >>
                    ELSE IF output = "failed" THEN << <<"Traceback", "OSError">> >>
                    ELSE <<>>)
                \o (IF output = "failed" THEN <<>> ELSE Listing(found_apps))
          /\ exit_code' = IF output = "failed" THEN 1 ELSE 0
    /\ pc' = "exited"
    /\ UNCHANGED <<overtaken, args, app_info, sub_idx, futures, work_queue, col_idx,
                   results, found_apps, request_log, now, wake, sub_time>>

\* Lines 177-194: summary, optional save, listing.  output is what
\* --output leads to: no path given, a written file, or a failed write.
Report ==
    /\ pc = "report"
    /\ \E output \in {"none", "written", "failed"} :
          /\ saved' = output
          /\ console' = console
                \o << <<"[RESULT] Total applications checked", Len(app_info)>>,
                      <<"[RESULT] Found existing applications", Len(found_apps)>> >>
                \o (IF output = "written" THEN << <<"[INFO] Results saved", "">> >>
                    ELSE IF output = "failed" THEN << <<"[ERROR] Unable to save results", "">> >>
                    ELSE <<>>)
                \o Listing(found_apps)
    /\ pc' = "exited"
    /\ exit_code' = 0
    /\ UNCHANGED <<overtaken, args, app_info, sub_idx, futures, work_queue, col_idx,
                   results, found_apps, request_log, now, wake, sub_time>>

\* ---- worker threads -----------------------------------------------------
\* StartProbe with a thread per work item, whatever max_workers is
StartProbeUnbounded ==
    /\ work_queue # <<>>
    /\ futures' = [futures EXCEPT ![Head(work_queue)].state = "running"]
    /\ request_log' = Append(request_log, app_info[Head(work_queue)].client_id)
    /\ work_queue' = Tail(work_queue)
    /\ UNCHANGED <<overtaken, pc, args, app_info, sub_idx, col_idx, results, found_apps,
                   now, wake, sub_time, console, saved, exit_code>>

\* StartProbe taking the newest work item instead of the oldest
StartProbeLifo ==
    /\ work_queue # <<>>
    /\ Cardinality(InFlight) < args.workers
    /\ futures' = [futures EXCEPT ![work_queue[Len(work_queue)]].state = "running"]
    /\ request_log' = Append(request_log, app_info[work_queue[Len(work_queue)]].client_id)
    /\ work_queue' = SubSeq(work_queue, 1, Len(work_queue) - 1)
    /\ UNCHANGED <<overtaken, pc, args, app_info, sub_idx, col_idx, results, found_apps,
                   now, wake, sub_time, console, saved, exit_code>>

\* StartProbe with one worker less than max_workers
StartProbeOneLess ==
    /\ work_queue # <<>>
    /\ Cardinality(InFlight) < args.workers - 1
    /\ futures' = [futures EXCEPT ![Head(work_queue)].state = "running"]
    /\ request_log' = Append(request_log, app_info[Head(work_queue)].client_id)
    /\ work_queue' = Tail(work_queue)
    /\ UNCHANGED <<overtaken, pc, args, app_info, sub_idx, col_idx, results, found_apps,
                   now, wake, sub_time, console, saved, exit_code>>

\* A free worker takes the head of the FIFO and calls check_app_existence,
\* which sends the request (line 42).
StartProbe ==
    /\ work_queue # <<>>
    /\ Cardinality(InFlight) < args.workers
    /\ futures' = [futures EXCEPT ![Head(work_queue)].state = "running"]
    /\ request_log' = Append(request_log, app_info[Head(work_queue)].client_id)
    /\ work_queue' = Tail(work_queue)
    /\ UNCHANGED <<overtaken, pc, args, app_info, sub_idx, col_idx, results, found_apps,
                   now, wake, sub_time, console, saved, exit_code>>

\* CompleteProbe in which the worker itself appends to the shared results
CompleteProbeAppends(i, resp) ==
    /\ i \in 1..Len(futures)
    /\ futures[i].state = "running"
    /\ LET call == check_app_existence(app_info[i].client_id,
                                       app_info[i].display_name, resp)
       IN  /\ futures' = [futures EXCEPT ![i] =
                            [state |-> "done", result |-> call.value,
                             exception |-> call.raised]]
           /\ results' = Append(results, call.value)
    /\ overtaken' = (overtaken \/ \E j \in 1..(i - 1) : futures[j].state # "done")
    /\ UNCHANGED <<pc, args, app_info, sub_idx, work_queue, col_idx,
                   found_apps, request_log, now, wake, sub_time, console,
                   saved, exit_code>>

\* CompleteProbe sending the request again after a failure
CompleteProbeRetry(i, resp) ==
    /\ i \in 1..Len(futures)
    /\ futures[i].state = "running"
    /\ IF ProbeException(resp) # ""
       THEN /\ request_log' = Append(request_log, app_info[i].client_id)
            /\ UNCHANGED <<futures, overtaken>>
       ELSE /\ futures' = [futures EXCEPT ![i] =
                             [state |-> "done",
                              result |-> check_app_existence(app_info[i].client_id,
                                            app_info[i].display_name, resp).value,
                              exception |-> ""]]
            /\ overtaken' = (overtaken \/ \E j \in 1..(i - 1) : futures[j].state # "done")
            /\ UNCHANGED request_log
    /\ UNCHANGED <<pc, args, app_info, sub_idx, work_queue, col_idx, results,
                   found_apps, now, wake, sub_time, console, saved, exit_code>>

\* The request ends (a body or an exception), check_app_existence ends and
\* the worker stores its return value, or the exception that left it, in
\* the future.
CompleteProbe(i, resp) ==
    /\ i \in 1..Len(futures)
    /\ futures[i].state = "running"
    /\ LET call == check_app_existence(app_info[i].client_id,
                                       app_info[i].display_name, resp)
       IN  futures' = [futures EXCEPT ![i] =
                         [state |-> "done", result |-> call.value,
                          exception |-> call.raised]]
    /\ overtaken' = (overtaken \/ \E j \in 1..(i - 1) : futures[j].state # "done")
    /\ UNCHANGED <<pc, args, app_info, sub_idx, work_queue, col_idx, results,
                   found_apps, request_log, now, wake, sub_time, console,
                   saved, exit_code>>

\* requests.post is called without timeout= (line 42): when the endpoint
\* never answers, the call never returns.
RemoteSilent(i) ==
    /\ i \in 1..Len(futures)
    /\ futures[i].state = "running"
    /\ futures' = [futures EXCEPT ![i].state = "hung"]
    /\ UNCHANGED <<overtaken, pc, args, app_info, sub_idx, work_queue, col_idx, results,
                   found_apps, request_log, now, wake, sub_time, console,
                   saved, exit_code>>

MainThread ==
    \/ ParseArgs
    \/ Load
    \/ CreatePool
    \/ Submit
    \/ SleepReturns
    \/ Collect
    \/ Abort
    \/ Report

Next ==
    \/ MainThread
    \/ Tick
    \/ StartProbe
    \/ \E i \in 1..MaxRows, resp \in Responses : CompleteProbe(i, resp)
    \/ \E i \in 1..MaxRows : RemoteSilent(i)

Spec == Init /\ [][Next]_vars

\* The interpreter schedules every thread that can run, time passes, and a
\* request that gets an answer or an error ends: the program does not stop
\* while a step is possible.  No step can be taken forever (each one moves a
\* loop index, the clock towards wake, or a probe towards done), so this
\* gives every thread that can run its step.  Nothing makes a silent
\* endpoint answer.
FairSpec == Spec /\ WF_vars(Next)

\* ---- shared by the claims -------------------------------------------------
CandidateOf(outcome) ==
    [client_id |-> outcome.client_id, display_name |-> outcome.display_name]

\* main left the collecting loop normally
RunCompleted == pc = "report" \/ (pc = "exited" /\ exit_code = 0)

Hung == \E i \in 1..Len(futures) : futures[i].state = "hung"

\* ---- C1 -------------------------------------------------------------------
\* The status the claim gives a response.
ClaimedStatus(resp) ==
    IF resp.raises # "" THEN "error"
    ELSE IF resp.has_codes /\ resp.error_codes # <<>> /\ resp.error_codes[1] = 7000215
         THEN "exists"
    ELSE IF resp.has_codes /\ resp.error_codes # <<>> /\ resp.error_codes[1] = 700016
         THEN "not_found"
    ELSE "unknown"

\* C1: every probe's status follows its response: first code 7000215 gives
\* 'exists', 700016 gives 'not_found', any other code gives 'unknown' (a code
\* of 0, an absent error_codes field and an empty error_codes list included),
\* a transport failure gives 'error'.
C1_StatusFollowsResponse ==
    [][\A i \in 1..MaxRows, resp \in Responses :
          CompleteProbe(i, resp) => futures'[i].result.status = ClaimedStatus(resp)]_vars

\* ---- C2 -------------------------------------------------------------------
\* C2: whatever the order in which the probes finish, results holds at
\* position k the outcome of the candidate at input position k, and the final
\* sequence has all N positions.
C2_ResultsInInputOrder ==
    /\ \A k \in 1..Len(results) :
          /\ k <= Len(app_info)
          /\ CandidateOf(results[k]) = app_info[k]
          /\ results[k] = futures[k].result
    /\ RunCompleted => Len(results) = Len(app_info)

\* The run completed with two different candidates although the second probe
\* finished before the first.
C2_Witness ==
    /\ pc = "exited"
    /\ exit_code = 0
    /\ overtaken
    /\ Len(results) >= 2
    /\ results[1].client_id # results[2].client_id

\* ---- C3 -------------------------------------------------------------------
\* How many entries of the sequence s of records are for candidate c.
Count(s, c) == Cardinality({ j \in 1..Len(s) : CandidateOf(s[j]) = c })

\* C3: when the run completes, there are as many outcomes as candidates and
\* every candidate has exactly one (as many outcomes as the list holds
\* copies of it), whatever mix of answers and transport failures the probes
\* met.
C3_OneOutcomePerCandidate ==
    RunCompleted =>
        /\ Len(results) = Len(app_info)
        /\ \A k \in 1..Len(app_info) :
              Count(results, app_info[k]) = Count(app_info, app_info[k])
        /\ \A j \in 1..Len(results) :
              results[j].status \in {"exists", "not_found", "unknown", "error"}

\* A completed run in which one probe failed and another got an answer.
C3_Witness ==
    /\ pc = "exited"
    /\ exit_code = 0
    /\ Len(results) = Len(app_info)
    /\ \E j, k \in 1..Len(results) :
          results[j].status = "error" /\ results[k].status = "exists"

\* ---- C4 -------------------------------------------------------------------
\* A fault was raised inside the probe of candidate i.
Faulted(i) ==
    /\ futures[i].state = "done"
    /\ futures[i].exception # "" \/ futures[i].result.status = "error"

\* C4: a fault raised inside a probe becomes that candidate's 'error'
\* outcome: the future never holds an exception, main is never thrown out of
\* the with block by it, and the run, once ended, has submitted and probed
\* every candidate and collected an outcome for each.
C4_FaultContained ==
    /\ \A i \in 1..Len(futures) :
          Faulted(i) =>
             /\ futures[i].exception = ""
             /\ futures[i].result.status = "error"
             /\ CandidateOf(futures[i].result) = app_info[i]
    /\ (\E i \in 1..Len(futures) : Faulted(i)) /\ args.delay >= 0 =>
          /\ pc # "abort"
          /\ pc = "exited" =>
                /\ exit_code = 0
                /\ Len(futures) = Len(app_info)
                /\ Len(request_log) = Len(app_info)
                /\ Len(results) = Len(app_info)

\* The run ended normally after the first probe faulted, and the second
\* candidate has its own, different outcome.
C4_Witness ==
    /\ pc = "exited"
    /\ exit_code = 0
    /\ Len(results) >= 2
    /\ results[1].status = "error"
    /\ results[2].status = "not_found"

\* ---- C5 -------------------------------------------------------------------
\* C5: every candidate is submitted once and every started probe sends one
\* request: the requests sent are those of the started probes, in input
\* order, a failed probe sends no second one, and a completed run has sent
\* exactly N, equal identifiers included.
C5_OneRequestPerCandidate ==
    /\ Len(futures) = sub_idx - 1
    /\ Len(futures) <= Len(app_info)
    /\ Len(request_log) = Cardinality({ i \in 1..Len(futures) : futures[i].state # "queued" })
    /\ \A k \in 1..Len(request_log) : request_log[k] = app_info[k].client_id
    /\ RunCompleted => Len(request_log) = Len(app_info)

\* A completed run over two candidates with the same identifier, one of
\* whose probes failed: two requests, two outcomes.
C5_Witness ==
    /\ pc = "exited"
    /\ exit_code = 0
    /\ Len(app_info) >= 2
    /\ app_info[1].client_id = app_info[2].client_id
    /\ results[1].status = "error"
    /\ Len(request_log) = Len(app_info)
    /\ Len(results) = Len(app_info)

\* ---- C6 -------------------------------------------------------------------
\* C6: with a worker count W >= 1, at most W probes are started and not yet
\* finished.
C6_InFlightBounded ==
    args.workers >= 1 => Cardinality(InFlight) <= args.workers

\* Every worker is busy and a submitted probe waits in the queue.
C6_Witness ==
    /\ args.workers >= 1
    /\ Cardinality(InFlight) = args.workers
    /\ work_queue # <<>>

\* ---- C7 -------------------------------------------------------------------
\* C7: with a delay d > 0, each submission is at least d after the one
\* before it, so the last one is at least (k-1)*d after the first.
C7_SubmissionPacing ==
    args.delay > 0 =>
        /\ \A i \in 1..(Len(sub_time) - 1) : sub_time[i + 1] - sub_time[i] >= args.delay
        /\ sub_time # <<>> =>
              sub_time[Len(sub_time)] - sub_time[1] >= (Len(sub_time) - 1) * args.delay

\* A second submission under a positive delay, made while the first probe
\* was already finished and every worker idle.
C7_Witness ==
    /\ args.delay > 0
    /\ Len(sub_time) >= 2
    /\ futures[1].state = "done"
    /\ futures[2].state = "queued"
    /\ InFlight = {}

\* ---- C8 -------------------------------------------------------------------
\* C8: every probe that was started eventually returns, also when its remote
\* endpoint never answers.
C8_EveryProbeReturns ==
    \A i \in 1..MaxRows :
        (i <= Len(futures) /\ futures[i].state \in {"running", "hung"})
            ~> (i <= Len(futures) /\ futures[i].state = "done")

\* ---- C9 -------------------------------------------------------------------
\* Everything was submitted, every probe finished, every outcome collected.
AllCollected ==
    /\ Len(futures) = Len(app_info)
    /\ Pending = {}
    /\ Len(results) = Len(app_info)

\* C9: a run started on a non-empty list with W >= 1 and delay >= 0, whose
\* probes all return, reaches the state where all N candidates were
\* submitted, probed and collected.
C9_RunCompletes ==
    (pc = "submit" /\ sub_idx = 1 /\ args.workers >= 1 /\ args.delay >= 0)
        ~> (AllCollected \/ Hung)

\* A run of two candidates on one worker has collected everything.
C9_Witness ==
    /\ AllCollected
    /\ args.workers = 1
    /\ Len(app_info) >= 2
    /\ ~Hung

\* ---- C10 ------------------------------------------------------------------
\* The last line main printed reports an input failure.
InputFailureReported ==
    /\ console # <<>>
    /\ console[Len(console)][1] \in {"Error: Unable to read file",
                                     "Error: No valid application ID data found"}

\* C10: when the identifier source is unreadable or gives no candidate, the
\* process reports it and exits with code 1, and no probe is submitted and
\* no request sent at any point.
C10_InputFailureIsFatal ==
    app_info = <<>> =>
        /\ pc \in {"parse", "load", "exited"}
        /\ futures = <<>>
        /\ request_log = <<>>
        /\ pc = "exited" => exit_code = 1 /\ InputFailureReported

\* The process has exited on a file that held only blank rows.
C10_Witness ==
    /\ pc = "exited"
    /\ app_info = <<>>
    /\ exit_code = 1
    /\ console[Len(console)][1] = "Error: No valid application ID data found"

\* ---- C11 ------------------------------------------------------------------
\* C11: a run whose input file was readable and not empty ends with exit
\* code 0, whatever --workers and --delay are, whatever the probes gave and
\* whether or not the output file could be written.
C11_ExitZeroAfterLoad ==
    pc = "exited" /\ app_info # <<>> => exit_code = 0

\* ---- C12 ------------------------------------------------------------------
IsExists(outcome) == outcome.status = "exists"

\* The count the summary line `tag` reported, -1 when it was not printed.
Reported(tag) ==
    IF \E k \in 1..Len(console) : console[k][1] = tag
    THEN console[CHOOSE k \in 1..Len(console) : console[k][1] = tag][2]
    ELSE -1

\* C12: found_apps is the subsequence of results whose status is 'exists',
\* in input order, and at the end of the run the reported total is the
\* number of candidates.
C12_FoundIsExistsSubsequence ==
    /\ found_apps = SelectSeq(results, IsExists)
    /\ pc = "exited" /\ exit_code = 0 =>
          /\ Len(results) = Len(app_info)
          /\ Reported("[RESULT] Total applications checked") = Len(app_info)
          /\ Reported("[RESULT] Found existing applications") = Len(found_apps)

\* A finished run whose first candidate exists and whose second was not
\* found or failed: found_apps holds the first outcome only.
C12_Witness ==
    /\ pc = "exited"
    /\ exit_code = 0
    /\ Len(results) >= 2
    /\ results[1].status = "exists"
    /\ \A k \in 2..Len(results) : results[k].status \in {"not_found", "error"}
    /\ \E k \in 2..Len(results) : results[k].status = "error"
    /\ found_apps = <<results[1]>>
    /\ Reported("[RESULT] Total applications checked") = Len(results)

\* ---- C13 ------------------------------------------------------------------
\* What the console must end with after a failed write: the summary, the
\* warning, then the listing of the found applications.
TailAfterFailedWrite ==
    << <<"[RESULT] Total applications checked", Len(app_info)>>,
       <<"[RESULT] Found existing applications", Len(found_apps)>>,
       <<"[ERROR] Unable to save results", "">> >>
    \o Listing(found_apps)

\* C13: a failed write of the result file is a warning only: the step that
\* reports leaves results and found_apps as they were, the summary printed
\* before it still gives the right counts, the listing of the found
\* applications follows it, and the run ends normally.
C13_WriteFailureIsLocal ==
    /\ [](saved = "failed" =>
            /\ pc = "exited"
            /\ exit_code = 0
            /\ Len(console) >= Len(TailAfterFailedWrite)
            /\ SubSeq(console, Len(console) - Len(TailAfterFailedWrite) + 1, Len(console))
                  = TailAfterFailedWrite
            /\ found_apps = SelectSeq(results, IsExists))
    /\ [][pc = "report" => results' = results /\ found_apps' = found_apps]_vars

\* The write failed in a run that had found an application.
C13_Witness ==
    /\ saved = "failed"
    /\ pc = "exited"
    /\ found_apps # <<>>
    /\ console[Len(console)] = <<"- Name", found_apps[Len(found_apps)].client_id>>

\* ---- C14 ------------------------------------------------------------------
\* The response was decoded and has a first error code (the default one
\* when the field is absent).
Decodable(resp) == ProbeException(resp) = ""

FirstCode(resp) == GetErrorCodes(resp)[1]

\* C14: the status is a function of the first error code alone: a probe
\* that ends on a decodable response gets the status that any decodable
\* response with the same first code gets, whatever their HTTP status,
\* description or further codes.
C14_StatusByFirstCodeAlone ==
    [][\A i \in 1..Len(futures) :
          futures[i].state = "running" /\ futures'[i].state = "done" =>
             \A r1 \in { r \in Responses : Decodable(r) } :
                CompleteProbe(i, r1) =>
                   \A r2 \in { r \in Responses : Decodable(r) } :
                      FirstCode(r1) = FirstCode(r2) =>
                         futures'[i].result.status
                            = check_app_existence(app_info[i].client_id,
                                                  app_info[i].display_name, r2).value.status]_vars

\* Two probes ended on the same first code with different descriptions and
\* have the same status.
C14_Witness ==
    /\ Len(futures) >= 2
    /\ futures[1].state = "done"
    /\ futures[2].state = "done"
    /\ futures[1].result.status = "exists"
    /\ futures[2].result.status = "exists"
    /\ futures[1].result.error_code = futures[2].result.error_code
    /\ futures[1].result.error_description # futures[2].result.error_description

\* ---- C15 ------------------------------------------------------------------
\* Every outcome record the program holds: in a finished future or in results.
Outcomes ==
    { futures[i].result : i \in { j \in 1..Len(futures) :
                                    futures[j].state = "done" /\ futures[j].exception = "" } }
    \cup { results[k] : k \in 1..Len(results) }

HasField(outcome, field) == field \in DOMAIN outcome

\* C15: every outcome carries a remote error code or a transport error
\* message, never both and never neither: the message alone when its status
\* is 'error', the code alone otherwise.
C15_CodeXorMessage ==
    \A o \in Outcomes :
        /\ HasField(o, "error_code") # HasField(o, "error_message")
        /\ o.status = "error" <=> HasField(o, "error_message")
        /\ o.status \in {"exists", "not_found", "unknown"} <=> HasField(o, "error_code")

\* Both kinds of outcome were produced and collected.
C15_Witness ==
    /\ Len(results) >= 2
    /\ HasField(results[1], "error_message")
    /\ ~HasField(results[1], "error_code")
    /\ HasField(results[2], "error_code")
    /\ ~HasField(results[2], "error_message")

\* ---- C16 ------------------------------------------------------------------
Queued == { i \in 1..Len(futures) : futures[i].state = "queued" }

\* C16: candidates are submitted in input order (the submitted ones are
\* always the first Len(futures) of the list, at clock values that never
\* decrease) and started in that order (no probe is started while an
\* earlier one waits; the queue holds the waiting ones, oldest first); only
\* with more than one worker can a probe finish before an earlier one.
C16_SubmittedAndStartedInInputOrder ==
    /\ Len(futures) = sub_idx - 1
    /\ Len(sub_time) = Len(futures)
    /\ \A i, j \in 1..Len(sub_time) : i < j => sub_time[i] <= sub_time[j]
    /\ \A i, j \in 1..Len(futures) :
          i < j /\ futures[j].state # "queued" => futures[i].state # "queued"
    /\ Len(work_queue) = Cardinality(Queued)
    /\ \A k \in 1..Len(work_queue) : work_queue[k] = Len(futures) - Len(work_queue) + k
    /\ \A k \in 1..Len(request_log) : request_log[k] = app_info[k].client_id
    /\ overtaken => args.workers > 1

\* With two workers, the second probe has finished while the first, started
\* before it, is still running.
C16_Witness ==
    /\ args.workers > 1
    /\ overtaken
    /\ Len(futures) >= 2
    /\ futures[1].state = "running"
    /\ futures[2].state = "done"
    /\ app_info[1].client_id # app_info[2].client_id

\* ---- C17 ------------------------------------------------------------------
\* The futures whose slot the step writes.
Written == { i \in 1..Len(futures) : futures'[i] # futures[i] }

\* C17: a future is written once, by the worker that ran its probe, in a
\* step that writes no other future and neither shared list; results and
\* found_apps change only in a collecting step of the main thread, which
\* appends the outcome of the next future and writes no future.
C17_SingleWriter ==
    [][/\ \A i \in 1..Len(futures) : futures[i].state = "done" => futures'[i] = futures[i]
       /\ Len(futures') >= Len(futures)
       /\ Written # {} =>
             /\ Cardinality(Written) = 1
             /\ results' = results
             /\ found_apps' = found_apps
             /\ pc' = pc
       /\ (results' # results \/ found_apps' # found_apps) =>
             /\ pc = "collect"
             /\ futures' = futures
             /\ results' = Append(results, futures[col_idx].result)
             /\ found_apps' \in {found_apps, Append(found_apps, futures[col_idx].result)}
      ]_vars

\* Two workers finished their probes out of order and main collected both
\* outcomes, each at its own position.
C17_Witness ==
    /\ args.workers = 2
    /\ overtaken
    /\ Len(results) = 2
    /\ results[1] = futures[1].result
    /\ results[2] = futures[2].result
    /\ results[1] # results[2]

\* ---- C18 ------------------------------------------------------------------
FoundLines == { k \in 1..Len(console) : console[k][1] = "[FOUND]" }

\* C18: nothing is collected or reported as found before the last candidate
\* was submitted and its delay has passed, and results is always the first
\* Len(results) outcomes in input order: the next one collected is that of
\* the next candidate, however early later probes finished.
C18_CollectAfterSubmitInOrder ==
    /\ results # <<>> \/ FoundLines # {} \/ col_idx > 1 =>
          /\ sub_idx = Len(app_info) + 1
          /\ Len(futures) = Len(app_info)
          /\ pc \in {"collect", "report", "exited"}
          /\ now >= sub_time[Len(sub_time)] + args.delay
    /\ col_idx = Len(results) + 1
    /\ \A k \in 1..Len(results) :
          /\ futures[k].state = "done"
          /\ results[k] = futures[k].result
    /\ Cardinality(FoundLines) = Len(found_apps)

\* Every candidate is submitted and the last delay has passed; the second
\* probe is done, the first is not, and nothing has been collected.
C18_Witness ==
    /\ pc = "collect"
    /\ args.delay > 0
    /\ Len(futures) >= 2
    /\ futures[1].state = "running"
    /\ futures[2].state = "done"
    /\ results = <<>>
    /\ now >= sub_time[Len(sub_time)] + args.delay

\* ---- C19 ------------------------------------------------------------------
\* C19: once loaded, the candidate list is never changed by a submit, probe,
\* collect or output step, and an outcome appended to results stays as it
\* was appended.
C19_CandidatesAndOutcomesImmutable ==
    [][/\ pc \notin {"parse", "load"} => app_info' = app_info
       /\ Len(results') >= Len(results)
       /\ \A k \in 1..Len(results) : results'[k] = results[k]
      ]_vars

\* The run ended, output written, with both candidates and both outcomes
\* in place.
C19_Witness ==
    /\ pc = "exited"
    /\ saved = "written"
    /\ Len(app_info) = 2
    /\ Len(results) = 2
    /\ \A k \in 1..2 : CandidateOf(results[k]) = app_info[k]
====
